---- MODULE Spec2Model ----
(***************************************************************************)
(* The serverless handlers of tailor-pwa, one request at a time.           *)
(*                                                                         *)
(* The repository holds eight revisions of `exports.handler`:              *)
(*   agent      src/netlify/functions/agent.js   (medical, data chat)      *)
(*   medical    src/unnamed/part_002             (medical, first version)  *)
(*   camel      src/unnamed/part_001:100-219     (CAMEL API, archive/IPFS) *)
(*   mindsdb    src/unnamed/part_001:458-523     (generatePWA.js)          *)
(*   diagnosis  src/unnamed/part_003:94-174      (diagnosis engine)        *)
(*   proxy      src/unnamed/part_003:248-293     (MindsDB, bare)           *)
(*   camelLite  src/unnamed/part_003:348-394     (CAMEL API, bare)         *)
(*   pipeline   src/unnamed/part_000:46-82       (write/zip/deploy/ipfs)   *)
(*                                                                         *)
(* and one Express server, src/unnamed/part_001:221-338, whose route       *)
(* POST /api/pwa-agent serves overlapping requests in one process         *)
(* (SpecServer).  SpecLlama follows one call of                            *)
(* ClinicalLlamaClient.generateResponse listener by listener, and SpecPage *)
(* the click handler of src/Public/App.js.                                 *)
(*                                                                         *)
(* A handler runs from its entry to its first `await` in one step; every   *)
(* awaited upstream call settles in a later step with an outcome chosen by *)
(* the environment, and the handler then runs to its next await or to its  *)
(* end.  Messages of errors are sequences of words, so that the substring  *)
(* tests of the code (`includes("required")`) are computed on them.        *)
(***************************************************************************)
EXTENDS Integers, Sequences, FiniteSets, TLC

VARIABLES
  env,      \* process.env as the invocation reads it
  rev,      \* the revision that serves the request
  ev,       \* the event (HTTP method and raw body) of the request
  pc,       \* "idle", "await" (an upstream call is pending) or "done"
  stage,    \* which await the handler is suspended at
  ctx,      \* the handler's locals that live across awaits
  calls,    \* upstream calls issued for this request, in order
  fsOps,    \* file-system mutations made for this request, in order
  settled,  \* how the awaited calls of this request ended, in order
  resp,     \* what the handler returned, or that its promise rejected
  clock,    \* milliseconds the pending call has been waited for
  publicDir, \* the Express server's directory public/: whose files it holds
  outputZip, \* the Express server's file output.zip: whose files it holds
  reqs,     \* the requests the Express server is serving, by number
  llama,    \* one call of ClinicalLlamaClient.generateResponse, event by event
  page      \* the page of Public/App.js: its button, its interval, its request

\* the state of one invocation of a handler, and the state of the server
handlerVars == <<env, rev, ev, pc, stage, ctx, calls, fsOps, settled, resp, clock>>
serverVars == <<publicDir, outputZip, reqs>>

\* what a handler's step leaves alone, and what a step of the server does
restVars == <<serverVars, llama, page>>
sideVars == <<handlerVars, llama, page>>

vars == <<handlerVars, serverVars, llama, page>>

----------------------------------------------------------------------------
(* Bounds and program constants *)

MaxSymptoms == 2

MinPromptLen == 20
MaxPromptLen == 3000
MaxUserIdLen == 100
MinKeyLen == 30

\* how long the model lets a pending call wait, in ticks of the clock
MaxWaitTicks == 5

\* how many requests the Express server serves at a time
MaxRequests == 2

\* how many chunks the child process writes to stdout at most
MaxChunks == 3

\* how many requests the page sends at most
MaxClicks == 3

\* the timeouts the code configures, in milliseconds
LlamaTimeoutMs == 120000
MindsdbTimeoutMs == 60000
IframeTimeoutMs == 30000

\* the clock advances by the shortest of them
TickMs == IframeTimeoutMs

Revisions ==
  {"agent", "medical", "camel", "mindsdb", "diagnosis", "proxy", "camelLite", "pipeline"}

MedicalRevisions == {"agent", "medical"}

----------------------------------------------------------------------------
(* Words and messages *)

MatchAt(msg, needle, i) ==
  \A k \in 1..Len(needle) : msg[i + k - 1] = needle[k]

\* String.prototype.includes, on sequences of words
Includes(msg, needle) ==
  \E i \in 1..(Len(msg) - Len(needle) + 1) : MatchAt(msg, needle, i)

Err(name, msg) == [name |-> name, msg |-> msg, status |-> 0, code |-> ""]

\* an axios error: `response` is set (status > 0) when the upstream answered
AxiosErr(msg, status, code) ==
  [name |-> "AxiosError", msg |-> msg, status |-> status, code |-> code]

NoErr == Err("", <<>>)

----------------------------------------------------------------------------
(* Responses *)

ACAO == "Access-Control-Allow-Origin"
ACAM == "Access-Control-Allow-Methods"
ACAH == "Access-Control-Allow-Headers"
CT == "Content-Type"

CorsTriple == {ACAO, ACAM, ACAH}

\* an object without members
NoObj == [f \in {} |-> <<>>]

\* a returned response: body is "" (empty), plain text or a JSON object whose
\* field names are `fields`; `success` is the value of its success field,
\* `msg` the words of its error message, `result` the bundle it carries
Resp(status, headers, body, fields, success) ==
  [t |-> "response", status |-> status, headers |-> headers, body |-> body,
   fields |-> fields, success |-> success, stack |-> FALSE, err |-> NoErr,
   msg |-> <<>>, result |-> NoObj]

\* the same response with the error's stack trace in its body, or without
WithStack(r, b) == [r EXCEPT !.stack = b]

\* the same response with the message of the error in its body
WithMsg(r, m) == [r EXCEPT !.msg = m]

\* the same response with the object `obj` as its content, result or data
WithResult(r, obj) == [r EXCEPT !.result = obj]

\* the handler's promise rejected with `e`: no response object exists
Rejected(e) ==
  [t |-> "rejected", status |-> 0, headers |-> {}, body |-> "none",
   fields |-> {}, success |-> "absent", stack |-> FALSE, err |-> e,
   msg |-> <<>>, result |-> NoObj]

NoResp ==
  [t |-> "none", status |-> 0, headers |-> {}, body |-> "none",
   fields |-> {}, success |-> "absent", stack |-> FALSE, err |-> NoErr,
   msg |-> <<>>, result |-> NoObj]

Json(status, headers, fields) == Resp(status, headers, "json", fields, "absent")

----------------------------------------------------------------------------
(* Steps of a handler: it returns, throws inside its try, or awaits a call *)

\* action: the validated action; promptLen: the length of the prompt handed
\* on; i: how many symptoms were added; content: what a call returned
Ctx(action, promptLen, i, content) ==
  [action |-> action, promptLen |-> promptLen, i |-> i, content |-> content]

NoCtx ==
  Ctx("", 0, 0, [kind |-> "none", wrap |-> "bare", missing |-> {}, manifest |-> "ok",
                 html |-> "plain"])

Return(r) ==
  [t |-> "return", resp |-> r, err |-> NoErr, stage |-> "", call |-> "",
   fs |-> <<>>, ctx |-> NoCtx]

Throw(e) ==
  [t |-> "throw", resp |-> NoResp, err |-> e, stage |-> "", call |-> "",
   fs |-> <<>>, ctx |-> NoCtx]

Await(st, call, c) ==
  [t |-> "await", resp |-> NoResp, err |-> NoErr, stage |-> st, call |-> call,
   fs |-> <<>>, ctx |-> c]

WithFs(step, ops) == [step EXCEPT !.fs = ops \o step.fs]

----------------------------------------------------------------------------
(* Inputs: prompts, bodies, events, the environment, upstream outcomes *)

Fields == {"html", "js", "manifest", "sw", "css"}

\* a prompt value of the body: absent/null/"" (t = "missing"), a number, an
\* object (the files object that pipeline's "write" takes) or a string of
\* `len` characters, `esc` of which validator.escape replaces by an entity,
\* and which matches a dangerous-advice pattern or not
Prompt(t, len, esc, dangerous) ==
  [t |-> t, len |-> len, esc |-> esc, dangerous |-> dangerous]

NoPrompt == Prompt("missing", 0, 0, FALSE)
GoodPrompt == Prompt("string", MinPromptLen, 0, FALSE)

Prompts ==
  { NoPrompt, Prompt("number", 0, 0, FALSE), Prompt("object", 0, 0, FALSE),
    GoodPrompt }
  \cup { Prompt("string", n, 0, FALSE) :
           n \in {1, MinPromptLen - 1, MaxPromptLen, MaxPromptLen + 1} }
  \cup { Prompt("string", MaxPromptLen, 1, FALSE),
         Prompt("string", MinPromptLen, 0, TRUE) }

UserId(t, len) == [t |-> t, len |-> len]
NoUserId == UserId("missing", 0)

UserIds ==
  { NoUserId, UserId("number", 0), UserId("string", MaxUserIdLen),
    UserId("string", MaxUserIdLen + 1) }

ActionNames ==
  {"", "clarify", "generate", "diagnose", "treatment_plan", "create_chat_session",
   "write", "zip", "deploy", "ipfs", "bogus"}

Symptoms(t, n) == [t |-> t, n |-> n]
NoSymptoms == Symptoms("missing", 0)

Body(kind, text, action, prompt, userId, dataSources, archive, upload, symptoms) ==
  [kind |-> kind, text |-> text, action |-> action, prompt |-> prompt,
   userId |-> userId, dataSources |-> dataSources,
   createArchive |-> archive, uploadToIPFS |-> upload, symptoms |-> symptoms]

ObjBody(action, prompt) ==
  Body("object", <<>>, action, prompt, NoUserId, "missing", FALSE, FALSE, NoSymptoms)

\* event.body: undefined, text that is no JSON, the JSON text `null`, or a
\* JSON object
Bodies ==
  { Body("absent", <<"undefined">>, "", NoPrompt, NoUserId, "missing", FALSE, FALSE,
         NoSymptoms),
    Body("null", <<>>, "", NoPrompt, NoUserId, "missing", FALSE, FALSE, NoSymptoms) }
  \cup { Body("badjson", w, "", NoPrompt, NoUserId, "missing", FALSE, FALSE, NoSymptoms) :
           w \in {<<"oops">>, <<"required">>, <<"Not", "Allowed">>} }
  \cup { ObjBody(a, p) : a \in ActionNames, p \in Prompts }
  \cup { Body("object", <<>>, "create_chat_session", p, u, d, FALSE, FALSE, NoSymptoms) :
           p \in {NoPrompt, GoodPrompt},
           u \in UserIds,
           d \in {"missing", "null", "empty", "some"} }
  \cup { Body("object", <<>>, "generate", GoodPrompt, NoUserId, "missing", TRUE, u,
              NoSymptoms) : u \in BOOLEAN }
  \cup { Body("object", <<>>, "", NoPrompt, NoUserId, "missing", a, u, s) :
           a \in BOOLEAN, u \in BOOLEAN,
           s \in {NoSymptoms, Symptoms("other", 0)}
                 \cup { Symptoms("array", n) : n \in 0..MaxSymptoms } }

Methods == {"POST", "OPTIONS", "GET", "DELETE"}

Events == [method : Methods, body : Bodies]

\* process.env, and whether the engine's JSON.parse quotes the input in the
\* message of its SyntaxError (Node 20 does, Node 18 does not)
Envs ==
  [nodeEnv : {"unset", "development", "production"},
   mindsdbKeyLen : {0, MinKeyLen - 1, MinKeyLen},
   camelAiKey : BOOLEAN,
   quoteInput : BOOLEAN]

\* the text an upstream completion (or the child's `content`) carries:
\* absent, empty, prose without braces, or a JSON object of the bundle's
\* fields, bare, in a ```json fence, between prose, or between prose that has
\* braces of its own; `missing` are the fields the object lacks, `manifest`
\* and `html` say what the values of these two fields look like
Content(kind, wrap, missing, manifest) ==
  [kind |-> kind, wrap |-> wrap, missing |-> missing, manifest |-> manifest,
   html |-> "plain"]

\* the same text, the html of the bundle holding ``` or braces
WithHtml(c, h) == [c EXCEPT !.html = h]

NoContent == Content("none", "bare", {}, "ok")

Contents ==
  { NoContent, Content("empty", "bare", {}, "ok"), Content("text", "bare", {}, "ok") }
  \cup { Content("json", w, {}, "ok") : w \in {"bare", "fenced", "prose", "braces"} }
  \cup { WithHtml(Content("json", "fenced", {}, "ok"), h) : h \in {"ticks", "braces"} }
  \cup { Content("json", "bare", m, "ok") : m \in {{"sw"}, {"js", "css"}} }
  \cup { Content("json", "bare", {}, m) : m \in {"unparsable", "noname"} }

\* a piece of text: "fence" is ```json, "ticks" is ```, "open" and "close"
\* are braces, "prose" is anything without backticks or braces, and "pair" is
\* a member "f": "v" of a JSON object, v a string given piece by piece
Tok(k, f, v) == [k |-> k, f |-> f, v |-> v]

\* the string that field f of the bundle in c holds, piece by piece;
\* "backticks" is ``` in it
Value(c, f) ==
  CASE f = "manifest" /\ c.manifest = "ok" -> <<"{", "name", "description", "}">>
    [] f = "manifest" /\ c.manifest = "noname" -> <<"{", "}">>
    [] f = "html" /\ c.html = "ticks" -> <<"html", "backticks", "html">>
    [] f = "html" /\ c.html = "braces" -> <<"html", "{", "}">>
    [] OTHER -> <<f>>

\* the object the JSON in c denotes
Bundle(c) ==
  IF c.kind = "json" THEN [f \in Fields \ c.missing |-> Value(c, f)] ELSE NoObj

\* the text itself, piece by piece
Text(c) ==
  LET Present(f) == f \notin c.missing
      present == SelectSeq(<<"html", "js", "manifest", "sw", "css">>, Present)
      object == <<Tok("open", "", <<>>)>>
                \o [i \in 1..Len(present) |-> Tok("pair", present[i], Value(c, present[i]))]
                \o <<Tok("close", "", <<>>)>>
      prose == <<Tok("prose", "", <<>>)>>
  IN  CASE c.kind = "text" -> prose
        [] c.kind = "json" /\ c.wrap = "bare" -> object
        [] c.kind = "json" /\ c.wrap = "fenced" ->
             <<Tok("fence", "", <<>>)>> \o object \o <<Tok("ticks", "", <<>>)>>
        [] c.kind = "json" /\ c.wrap = "prose" -> prose \o object \o prose
        [] c.kind = "json" /\ c.wrap = "braces" ->
             prose \o object \o prose
               \o <<Tok("open", "", <<>>)>> \o prose \o <<Tok("close", "", <<>>)>>
        [] OTHER -> <<>>

\* text.replace(/```json|```/g, ''): every ```json and every ``` goes, those
\* inside the strings of the object too
StripFences(text) ==
  LET Kept(t) == t.k \notin {"fence", "ticks"}
      NoTicks(w) == w # "backticks"
      kept == SelectSeq(text, Kept)
  IN  [i \in 1..Len(kept) |-> [kept[i] EXCEPT !.v = SelectSeq(@, NoTicks)]]

\* text.match(/\{[\s\S]*\}/): from the first brace that opens to the last
\* one that closes, or null; the strings of an object lie between its braces
MatchBraces(text) ==
  LET opens == {i \in 1..Len(text) : text[i].k = "open"}
      closes == {i \in 1..Len(text) : text[i].k = "close"}
      first == CHOOSE i \in opens : \A j \in opens : i <= j
      last == CHOOSE i \in closes : \A j \in closes : j <= i
  IN  IF \E i \in opens, j \in closes : i < j
        THEN [found |-> TRUE, text |-> SubSeq(text, first, last)]
        ELSE [found |-> FALSE, text |-> <<>>]

\* JSON.parse(text.trim()): an object when the text is one pair of braces
\* around members and nothing else, a SyntaxError otherwise
JsonParse(text) ==
  LET n == Len(text)
      ok == /\ n >= 2
            /\ text[1].k = "open"
            /\ text[n].k = "close"
            /\ \A i \in 2..(n - 1) : text[i].k = "pair"
      At(f) == CHOOSE i \in 2..(n - 1) :
                 text[i].f = f /\ \A j \in (i + 1)..(n - 1) : text[j].f # f
  IN  [ok |-> ok,
       obj |-> IF ok THEN [f \in {text[i].f : i \in 2..(n - 1)} |-> text[At(f)].v]
                     ELSE NoObj]

\* requiredFields.filter(field => !result[field])
MissingFields(obj) == {f \in Fields : f \notin DOMAIN obj \/ obj[f] = <<>>}

Outcome(t, status, code, content) ==
  [t |-> t, status |-> status, code |-> code, content |-> content]

\* an HTTP call: answered 2xx, answered with an error status, failed on the
\* network, or timed out
HttpFailures ==
  { Outcome("http", s, "ERR_BAD_REQUEST", NoContent) : s \in {401, 404, 503} }
  \cup { Outcome("network", 0, c, NoContent) : c \in {"ECONNREFUSED", "ENOTFOUND"} }
  \cup { Outcome("timeout", 0, "ECONNABORTED", NoContent) }

ChatOutcomes == { Outcome("ok", 200, "", c) : c \in Contents } \cup HttpFailures

PlainOutcomes == { Outcome("ok", 200, "", Content("text", "bare", {}, "ok")) } \cup HttpFailures

\* ClinicalLlamaClient.generateResponse: resolves with JSON.parse(stdout).content
\* or rejects (timeout, exit code, unparsable stdout, spawn error)
LlamaOutcomes ==
  { Outcome("ok", 0, "", c) : c \in Contents }
  \cup { Outcome("reject", 0, c, NoContent) : c \in {"timeout", "exit", "parse", "spawn"} }

\* a local archive or an fs call: done, or failed with ENOENT
LocalOutcomes ==
  { Outcome("ok", 0, "", NoContent), Outcome("fail", 0, "ENOENT", NoContent) }

\* the message of an axios error
AxiosMsg(o) ==
  CASE o.t = "http" -> <<"Request", "failed", "with", "status", "code">>
    [] o.t = "timeout" -> <<"timeout", "exceeded">>
    [] o.t = "network" -> <<"connect", o.code>>
    [] OTHER -> <<>>

AxiosErrOf(o) == AxiosErr(AxiosMsg(o), o.status, o.code)

\* the message of JSON.parse's SyntaxError on `text`
SyntaxMsg(text, e) ==
  IF e.quoteInput
    THEN <<"Unexpected", "token">> \o text \o <<"is", "not", "valid", "JSON">>
    ELSE <<"Unexpected", "token", "in", "JSON">>

DestructureErr ==
  Err("TypeError", <<"Cannot", "destructure", "property", "action", "as", "it", "is", "null">>)

Falsy(p) == p.t = "missing" \/ (p.t = "string" /\ p.len = 0)

----------------------------------------------------------------------------
(* MedicalInputValidator *)

Invalid(e) == [ok |-> FALSE, err |-> e, len |-> 0]
Valid(len) == [ok |-> TRUE, err |-> NoErr, len |-> len]

\* validator.escape: each escaped character becomes a five-character entity
EscapedLen(p) == p.len + 4 * p.esc

ValidateMedicalPrompt(p) ==
  IF Falsy(p) \/ p.t # "string"
    THEN Invalid(Err("Error", <<"Medical", "prompt", "must", "be", "a", "non-empty", "string">>))
  ELSE IF p.len < MinPromptLen
    THEN Invalid(Err("Error", <<"Medical", "prompt", "must", "be", "at", "least", "20",
                                "characters", "long">>))
  ELSE IF p.len > MaxPromptLen
    THEN Invalid(Err("Error", <<"Medical", "prompt", "must", "be", "less", "than", "3000",
                                "characters">>))
  ELSE IF p.dangerous
    THEN Invalid(Err("Error", <<"Prompt", "contains", "potentially", "dangerous", "medical",
                                "advice", "patterns">>))
  ELSE Valid(EscapedLen(p))

AgentActions == {"clarify", "generate", "diagnose", "treatment_plan", "create_chat_session"}
MedicalActions == {"clarify", "generate", "diagnose", "treatment_plan"}
PromptActions == {"clarify", "generate", "diagnose", "treatment_plan"}

ValidateMedicalAction(validActions, action) ==
  IF action \notin validActions
    THEN Invalid(Err("Error", <<"Invalid", "medical", "action">>))
    ELSE Valid(0)

ValidateUserId(u) ==
  IF u.t # "string" \/ u.len = 0
    THEN Invalid(Err("Error", <<"User", "ID", "must", "be", "a", "non-empty", "string">>))
  ELSE IF u.len > MaxUserIdLen
    THEN Invalid(Err("Error", <<"User", "ID", "must", "be", "less", "than", "100",
                                "characters">>))
  ELSE Valid(u.len)

Wrap(prefix, e) == Err("Error", prefix \o e.msg)

----------------------------------------------------------------------------
(* agent.js and part_002: the medical handlers *)

MedicalSecurityHeaders ==
  {"X-Content-Type-Options", "X-Frame-Options", "X-XSS-Protection",
   "Strict-Transport-Security", "Content-Security-Policy", "Referrer-Policy",
   "Permissions-Policy"}

MedicalHeaders == MedicalSecurityHeaders \cup CorsTriple \cup {"Access-Control-Max-Age"}

MedicalError(status) ==
  Json(status, MedicalHeaders, {"error", "requestId", "medicalDisclaimer"})

MedicalSuccess ==
  Json(200, MedicalHeaders,
       {"content", "requestId", "timestamp", "medicalDisclaimer", "emergencyNotice",
        "model", "complianceNote"})

FieldOrder == <<"html", "js", "manifest", "sw", "css">>

\* the first field, in the order the loop visits them, that is missing
FirstMissing(m) ==
  FieldOrder[CHOOSE i \in 1..Len(FieldOrder) :
               /\ FieldOrder[i] \in m
               /\ \A j \in 1..(i - 1) : FieldOrder[j] \notin m]

\* the object generateMedicalPWA builds from the child's content, or its error
\* (agent.js also adds a reactComponent member; the five fields stay)
GenerateMedicalPWA(c) ==
  LET prefix == <<"Failed", "to", "generate", "medical", "PWA:">>
      jsonMatch == MatchBraces(Text(c))
      pwaData == JsonParse(jsonMatch.text)
      missing == MissingFields(pwaData.obj)
      manifest == pwaData.obj["manifest"]
      syntax == Err("SyntaxError", <<"Unexpected", "token", "in", "JSON">>)
  IN
  IF c.kind = "none"
    THEN Throw(Wrap(prefix, Err("TypeError", <<"Cannot", "read", "properties", "of",
                                               "undefined">>)))
  ELSE IF ~jsonMatch.found
    THEN Throw(Wrap(prefix, Err("Error", <<"No", "valid", "JSON", "found">>)))
  ELSE IF ~pwaData.ok THEN Throw(Wrap(prefix, syntax))
  ELSE IF missing # {}
    THEN Throw(Wrap(prefix, Err("Error", <<"Missing", "required", "medical", "PWA", "field:",
                                           FirstMissing(missing)>>)))
  ELSE IF ~(manifest[1] = "{" /\ manifest[Len(manifest)] = "}")
    THEN Throw(Wrap(prefix, syntax))
  ELSE IF \E k \in {"name", "description"} : \A i \in 1..Len(manifest) : manifest[i] # k
    THEN Throw(Wrap(prefix, Err("Error", <<"Invalid", "medical", "PWA", "manifest",
                                           "structure">>)))
  ELSE Return(WithResult(MedicalSuccess, pwaData.obj))

LlamaMsg(o) ==
  CASE o.code = "timeout" -> <<"Clinical", "Llama", "inference", "timeout">>
    [] o.code = "exit" -> <<"Clinical", "Llama", "process", "failed:">>
    [] o.code = "parse" -> <<"Failed", "to", "parse", "Clinical", "Llama", "response:">>
    [] OTHER -> <<"Failed", "to", "start", "Clinical", "Llama", "process:">>

\* what each action function puts before the message of the error it rethrows
LlamaPrefix(action) ==
  CASE action = "clarify" -> <<"Failed", "to", "clarify", "medical", "prompt:">>
    [] action = "generate" -> <<"Failed", "to", "generate", "medical", "PWA:">>
    [] action = "diagnose" -> <<"Failed", "to", "provide", "diagnosis", "support:">>
    [] OTHER -> <<"Failed", "to", "generate", "treatment", "plan:">>

\* DataChatService.createIframe up to its await
CreateIframe(e, c) ==
  IF ~e.camelAiKey
    THEN Throw(Wrap(<<"Failed", "to", "create", "medical", "chat", "session:">>,
                    Err("Error", <<"CAMEL_AI_API_KEY", "environment", "variable", "is",
                                   "required">>)))
    ELSE Await("iframe", "POST iframe/create", c)

\* createMedicalChatSession up to its first await
CreateMedicalChatSession(b, e) ==
  LET prefix == <<"Failed", "to", "create", "medical", "chat", "session:">>
      u == ValidateUserId(b.userId)
      c == Ctx("create_chat_session", 0, 0, NoContent)
  IN  IF ~u.ok THEN Throw(Wrap(prefix, u.err))
      ELSE IF b.dataSources = "null"
        THEN Throw(Wrap(prefix, Err("TypeError", <<"Cannot", "read", "properties", "of",
                                                   "null">>)))
      ELSE IF b.dataSources \in {"missing", "empty"}
        THEN Await("dataSources", "GET data-sources", c)
      ELSE CreateIframe(e, c)

\* the handler without its preflight return, the method check letting OPTIONS
\* through to the body handling
AgentStartNoPreflight(event, e) ==
  LET b == event.body IN
  IF event.method \notin {"POST", "OPTIONS"} THEN Return(MedicalError(405))
  ELSE IF b.kind = "badjson" THEN Return(MedicalError(400))
  ELSE IF b.kind = "null" THEN Throw(DestructureErr)
  ELSE IF b.action = "" THEN Return(MedicalError(400))
  ELSE IF ~ValidateMedicalAction(AgentActions, b.action).ok
    THEN Throw(ValidateMedicalAction(AgentActions, b.action).err)
  ELSE IF b.action \in PromptActions
    THEN IF Falsy(b.prompt) THEN Return(MedicalError(400))
         ELSE IF ~ValidateMedicalPrompt(b.prompt).ok
           THEN Throw(ValidateMedicalPrompt(b.prompt).err)
         ELSE Await("llama", "spawn clinical-llama",
                    Ctx(b.action, ValidateMedicalPrompt(b.prompt).len, 0, NoContent))
  ELSE IF b.userId.t = "missing" THEN Return(MedicalError(400))
  ELSE CreateMedicalChatSession(b, e)

\* the handler forwarding the prompt as it came, validateMedicalPrompt left out
AgentStartNoPromptCheck(event, e) ==
  LET b == event.body IN
  IF event.method = "OPTIONS" THEN Return(Resp(200, MedicalHeaders, "", {}, "absent"))
  ELSE IF event.method # "POST" THEN Return(MedicalError(405))
  ELSE IF b.kind = "badjson" THEN Return(MedicalError(400))
  ELSE IF b.kind = "null" THEN Throw(DestructureErr)
  ELSE IF b.action = "" THEN Return(MedicalError(400))
  ELSE IF ~ValidateMedicalAction(AgentActions, b.action).ok
    THEN Throw(ValidateMedicalAction(AgentActions, b.action).err)
  ELSE IF b.action \in PromptActions
    THEN IF Falsy(b.prompt) THEN Return(MedicalError(400))
         ELSE Await("llama", "spawn clinical-llama", Ctx(b.action, b.prompt.len, 0, NoContent))
  ELSE IF b.userId.t = "missing" THEN Return(MedicalError(400))
  ELSE CreateMedicalChatSession(b, e)

\* exports.handler of agent.js from its entry to its first await
AgentStart(event, e) ==
  LET b == event.body IN
  IF event.method = "OPTIONS" THEN Return(Resp(200, MedicalHeaders, "", {}, "absent"))
  ELSE IF event.method # "POST" THEN Return(MedicalError(405))
  ELSE IF b.kind = "badjson" THEN Return(MedicalError(400))
  ELSE IF b.kind = "null" THEN Throw(DestructureErr)
  ELSE IF b.action = "" THEN Return(MedicalError(400))
  ELSE IF ~ValidateMedicalAction(AgentActions, b.action).ok
    THEN Throw(ValidateMedicalAction(AgentActions, b.action).err)
  ELSE IF b.action \in PromptActions
    THEN IF Falsy(b.prompt) THEN Return(MedicalError(400))
         ELSE IF ~ValidateMedicalPrompt(b.prompt).ok
           THEN Throw(ValidateMedicalPrompt(b.prompt).err)
         ELSE Await("llama", "spawn clinical-llama",
                    Ctx(b.action, ValidateMedicalPrompt(b.prompt).len, 0, NoContent))
  ELSE IF b.userId.t = "missing" THEN Return(MedicalError(400))
  ELSE CreateMedicalChatSession(b, e)

\* exports.handler of part_002 from its entry to its first await;
\* generateTreatmentPlan is not defined in that file
MedicalStart(event, e) ==
  LET b == event.body IN
  IF event.method = "OPTIONS" THEN Return(Resp(200, MedicalHeaders, "", {}, "absent"))
  ELSE IF event.method # "POST" THEN Return(MedicalError(405))
  ELSE IF b.kind = "badjson" THEN Return(MedicalError(400))
  ELSE IF b.kind = "null" THEN Throw(DestructureErr)
  ELSE IF b.action = "" \/ Falsy(b.prompt) THEN Return(MedicalError(400))
  ELSE IF ~ValidateMedicalAction(MedicalActions, b.action).ok
    THEN Throw(ValidateMedicalAction(MedicalActions, b.action).err)
  ELSE IF ~ValidateMedicalPrompt(b.prompt).ok
    THEN Throw(ValidateMedicalPrompt(b.prompt).err)
  ELSE IF b.action = "treatment_plan"
    THEN Throw(Err("ReferenceError", <<"generateTreatmentPlan", "is", "not", "defined">>))
  ELSE Await("llama", "spawn clinical-llama",
             Ctx(b.action, ValidateMedicalPrompt(b.prompt).len, 0, NoContent))

\* the medical handlers after an awaited call settled with outcome o
MedicalResume(st, c, o, e) ==
  CASE st = "llama" ->
         IF o.t # "ok"
           THEN Throw(Wrap(LlamaPrefix(c.action), Err("Error", LlamaMsg(o))))
         ELSE IF c.action = "generate" THEN GenerateMedicalPWA(o.content)
         ELSE Return(MedicalSuccess)
    [] st = "dataSources" -> CreateIframe(e, c)
    [] st = "iframe" ->
         IF o.t # "ok"
           THEN Throw(Wrap(<<"Failed", "to", "create", "medical", "chat", "session:",
                             "Failed", "to", "create", "data", "chat", "iframe:">>,
                           AxiosErrOf(o)))
           ELSE Return(MedicalSuccess)
    [] OTHER -> Throw(Err("Error", <<"unreachable">>))

\* the catch of the medical handlers: `body` is declared with let inside the
\* try block, so `body?.action` in the catch block throws a ReferenceError
\* before the 500 response is built, and the handler's promise rejects
MedicalCatch(err, e) ==
  Rejected(Err("ReferenceError", <<"body", "is", "not", "defined">>))

----------------------------------------------------------------------------
(* part_001:100-219: the CAMEL handler with archive and IPFS upload *)

ParseErr(b, e) ==
  IF b.kind = "null" THEN DestructureErr ELSE Err("SyntaxError", SyntaxMsg(b.text, e))

CamelOk ==
  Resp(200, {CT, ACAO}, "json", {"success", "action", "data", "timestamp"}, "true")

CamelStart(event, e) ==
  LET b == event.body IN
  IF event.method # "POST" THEN Return(Json(405, {CT} \cup CorsTriple, {"error"}))
  ELSE IF b.kind # "object" THEN Throw(ParseErr(b, e))
  ELSE IF b.action = "" \/ Falsy(b.prompt) THEN Return(Json(400, {CT, ACAO}, {"error"}))
  ELSE IF b.action = "clarify"
    THEN Await("chat", "POST medical/prompts/validate", Ctx(b.action, b.prompt.len, 0, NoContent))
  ELSE IF b.action = "generate"
    THEN Await("chat", "POST medical/pwa/generate", Ctx(b.action, b.prompt.len, 0, NoContent))
  ELSE Return(Json(400, {CT, ACAO}, {"error"}))

\* createPWAArchive and uploadToIPFS, shared by camel and diagnosis
ArchiveResume(event, st, c, o, ok) ==
  CASE st = "archive" ->
         IF o.t # "ok" THEN Throw([Err("Error", <<"ENOENT:", "no", "such", "file">>)
                                    EXCEPT !.code = o.code])
         ELSE IF event.body.uploadToIPFS THEN Await("ipfs", "ipfs add", c)
         ELSE Return(ok)
    [] OTHER ->
         IF o.t # "ok" THEN Throw(Err("Error", AxiosMsg(o))) ELSE Return(ok)

CamelResume(event, st, c, o) ==
  IF st = "chat"
    THEN IF o.t # "ok" THEN Throw(AxiosErrOf(o))
         ELSE IF c.action = "generate" /\ event.body.createArchive
           THEN WithFs(Await("archive", "", [c EXCEPT !.content = o.content]),
                       <<"createWriteStream zip">>)
         ELSE IF c.action = "generate" THEN Return(WithResult(CamelOk, Bundle(o.content)))
         ELSE Return(CamelOk)
    ELSE ArchiveResume(event, st, c, o, WithResult(CamelOk, Bundle(c.content)))

CamelCatch(err, e) ==
  LET errorMessage ==
        CASE err.status > 0 -> err.msg
          [] err.code = "ENOENT" -> <<"File", "system", "error">>
          [] err.code = "ECONNREFUSED" ->
               <<"Unable", "to", "connect", "to", "external", "service">>
          [] OTHER -> <<"Internal", "Server", "Error">>
  IN  WithMsg(WithStack(Json(IF err.status > 0 THEN err.status ELSE 500, {CT, ACAO},
                             {"error", "details", "timestamp"}),
                        e.nodeEnv = "development"),
              errorMessage)

----------------------------------------------------------------------------
(* part_001:340-523: generatePWA.js, the MindsDB handler *)

MindsdbHeaders == {ACAO, ACAH, ACAM, CT}

\* validateEnvironment looking for a missing key only, not for a short one
ValidateEnvironmentMissingOnly(e) ==
  IF e.mindsdbKeyLen = 0
    THEN Invalid(Err("Error", <<"Server", "configuration", "error">>))
    ELSE Valid(0)

\* validateEnvironment: the errors it finds, as a count
ValidateEnvironment(e) ==
  IF e.mindsdbKeyLen = 0 \/ e.mindsdbKeyLen < MinKeyLen
    THEN Invalid(Err("Error", <<"Server", "configuration", "error">>))
    ELSE Valid(0)

MindsdbStart(event, e) ==
  LET b == event.body IN
  IF event.method = "OPTIONS" THEN Return(Resp(204, MindsdbHeaders, "", {}, "absent"))
  ELSE IF event.method # "POST" THEN Return(Json(405, MindsdbHeaders, {"error"}))
  ELSE IF b.kind = "absent" THEN Throw(Err("Error", <<"Request", "body", "required">>))
  ELSE IF b.kind # "object" THEN Throw(ParseErr(b, e))
  ELSE IF b.action = "" \/ Falsy(b.prompt)
    THEN Throw(Err("Error", <<"Action", "and", "prompt", "required">>))
  ELSE IF ~ValidateEnvironment(e).ok THEN Throw(ValidateEnvironment(e).err)
  ELSE Await("chat", "POST mindsdb", Ctx(b.action, b.prompt.len, 0, NoContent))

\* generatePWA of generatePWA.js on the completion's text: fences are
\* stripped, the rest is parsed, the five fields are required; what the inner
\* try throws, the SyntaxError or the list of the missing fields, its catch
\* logs and replaces
GeneratePWA(c) ==
  LET result == JsonParse(StripFences(Text(c)))
      missingFields == MissingFields(result.obj)
      thrown == IF ~result.ok THEN <<"Unexpected", "token", "in", "JSON">>
                ELSE IF missingFields # {}
                  THEN <<"Missing", "fields:">> \o SelectSeq(FieldOrder, LAMBDA f : f \in missingFields)
                ELSE <<>>
  IN  IF thrown # <<>>
        THEN Throw(Err("Error", <<"Invalid", "PWA", "structure", "received">>))
        ELSE Return(WithResult(Resp(200, MindsdbHeaders, "json", {"success", "result"},
                                    "true"),
                               result.obj))

\* the handler asking the API once more after a call that failed
MindsdbResumeRetrying(st, c, o) ==
  IF o.t # "ok" /\ c.i = 0 THEN Await("chat", "POST mindsdb", [c EXCEPT !.i = 1])
  ELSE IF o.t # "ok" THEN Throw(Err("Error", <<"API", "request", "failed:">> \o AxiosMsg(o)))
  ELSE IF c.action = "clarify"
    THEN IF o.content.kind \in {"none", "empty"}
           THEN Throw(Err("Error", <<"Empty", "clarification", "response">>))
           ELSE Return(Resp(200, MindsdbHeaders, "json", {"success", "result"}, "true"))
  ELSE IF o.content.kind \in {"none", "empty"}
    THEN Throw(Err("Error", <<"Empty", "generation", "response">>))
  ELSE GeneratePWA(o.content)

MindsdbResume(st, c, o) ==
  IF o.t # "ok" THEN Throw(Err("Error", <<"API", "request", "failed:">> \o AxiosMsg(o)))
  ELSE IF c.action = "clarify"
    THEN IF o.content.kind \in {"none", "empty"}
           THEN Throw(Err("Error", <<"Empty", "clarification", "response">>))
           ELSE Return(Resp(200, MindsdbHeaders, "json", {"success", "result"}, "true"))
  ELSE IF o.content.kind \in {"none", "empty"}
    THEN Throw(Err("Error", <<"Empty", "generation", "response">>))
  ELSE GeneratePWA(o.content)

\* the status the catch derives from the words of the message
StatusOfMessage(msg) ==
  IF Includes(msg, <<"Not", "Allowed">>) THEN 405
  ELSE IF Includes(msg, <<"required">>) THEN 400
  ELSE 500

MindsdbCatch(err, e) ==
  WithMsg(WithStack(Resp(StatusOfMessage(err.msg), MindsdbHeaders, "json",
                         {"success", "error"} \cup
                           (IF e.nodeEnv = "development" THEN {"stack"} ELSE {}),
                         "false"),
                    e.nodeEnv = "development"),
          err.msg)

----------------------------------------------------------------------------
(* part_003:1-174: the diagnosis handler *)

DiagnosisOk ==
  Resp(200, {CT, ACAO}, "json",
       {"success", "sessionId", "diseases", "explanation", "archive", "timestamp"}, "true")

DiagnosisStart(event, e) ==
  LET b == event.body IN
  IF event.method # "POST" THEN Return(Json(405, {CT, ACAO}, {"error"}))
  ELSE IF b.kind # "object" THEN Throw(ParseErr(b, e))
  ELSE IF b.symptoms.t # "array" THEN Return(Json(400, {CT}, {"error"}))
  ELSE Await("StartSession", "POST StartSession", Ctx("", 0, 0, NoContent))

\* runDiagnosis going on to the next symptom when AddSymptom failed
DiagnosisResumeSkippingFailures(event, st, c, o) ==
  LET n == event.body.symptoms.n
      sessionId == IF st = "StartSession" THEN [c EXCEPT !.content = o.content] ELSE c
  IN
  IF st \in {"archive", "ipfs"} THEN ArchiveResume(event, st, c, o, DiagnosisOk)
  ELSE IF o.t # "ok" /\ st # "AddSymptom" THEN Throw(AxiosErrOf(o))
  ELSE CASE st \in {"StartSession", "AddSymptom"} ->
              IF c.i < n
                THEN Await("AddSymptom", "POST AddSymptom", [sessionId EXCEPT !.i = c.i + 1])
                ELSE Await("Analyze", "POST Analyze", sessionId)
         [] st = "Analyze" ->
              IF o.content.kind = "none"
                THEN Throw(Err("TypeError", <<"Cannot", "convert", "undefined", "to", "object">>))
                ELSE Await("explain", "POST huggingface", c)
         [] OTHER ->
              IF event.body.createArchive
                THEN WithFs(Await("archive", "", c), <<"createWriteStream zip">>)
                ELSE Return(DiagnosisOk)

\* the diagnosis handler after an await: runDiagnosis (c.content holds
\* sessionId, what StartSession answered), getLLMExplanation, the archive
DiagnosisResume(event, st, c, o) ==
  LET n == event.body.symptoms.n
      sessionId == IF st = "StartSession" THEN [c EXCEPT !.content = o.content] ELSE c
  IN
  IF st \in {"archive", "ipfs"} THEN ArchiveResume(event, st, c, o, DiagnosisOk)
  ELSE IF o.t # "ok" THEN Throw(AxiosErrOf(o))
  ELSE CASE st \in {"StartSession", "AddSymptom"} ->
              IF c.i < n
                THEN Await("AddSymptom", "POST AddSymptom", [sessionId EXCEPT !.i = c.i + 1])
                ELSE Await("Analyze", "POST Analyze", sessionId)
         [] st = "Analyze" ->
              IF o.content.kind = "none"
                THEN Throw(Err("TypeError", <<"Cannot", "convert", "undefined", "to", "object">>))
                ELSE Await("explain", "POST huggingface", c)
         [] OTHER ->
              IF event.body.createArchive
                THEN WithFs(Await("archive", "", c), <<"createWriteStream zip">>)
                ELSE Return(DiagnosisOk)

DiagnosisCatch(err, e) ==
  WithMsg(WithStack(Json(500, {CT, ACAO}, {"error", "stack", "timestamp"}),
                    e.nodeEnv = "development"),
          err.msg)

----------------------------------------------------------------------------
(* part_003:176-293 (proxy), part_003:295-394 (camelLite) *)

ProxyStart(event, e) ==
  LET b == event.body IN
  IF event.method # "POST" THEN Return(Resp(405, {}, "text", {}, "absent"))
  ELSE IF b.kind # "object" THEN Throw(ParseErr(b, e))
  ELSE IF b.action = "" \/ Falsy(b.prompt) THEN Return(Json(400, {}, {"error"}))
  ELSE IF b.action \in {"clarify", "generate"}
    THEN Await("chat", "POST mindsdb", Ctx(b.action, b.prompt.len, 0, NoContent))
  ELSE Return(Json(400, {}, {"error"}))

\* clarifyPrompt and generatePWA of the bare revisions on the completion:
\* choices[0].message.content.trim(), parsed as it is for generate
BareCompletion(c, o) ==
  IF o.t # "ok" THEN Throw(AxiosErrOf(o))
  ELSE IF o.content.kind = "none"
    THEN Throw(Err("TypeError", <<"Cannot", "read", "properties", "of", "undefined">>))
  ELSE IF c.action = "generate" /\ ~JsonParse(Text(o.content)).ok
    THEN Throw(Err("SyntaxError", <<"Unexpected", "token", "in", "JSON">>))
  ELSE IF c.action = "generate"
    THEN Return(WithResult(Json(200, {}, {"content"}), JsonParse(Text(o.content)).obj))
  ELSE Return(Json(200, {}, {"content"}))

ProxyResume(st, c, o) == BareCompletion(c, o)

ProxyCatch(err, e) == WithMsg(Json(500, {}, {"error"}), err.msg)

CamelLiteStart(event, e) ==
  LET b == event.body IN
  IF event.method # "POST" THEN Return(Json(405, {}, {"error"}))
  ELSE IF b.kind # "object" THEN Throw(ParseErr(b, e))
  ELSE IF b.action = "" \/ Falsy(b.prompt) THEN Return(Json(400, {}, {"error"}))
  ELSE IF b.action = "clarify"
    THEN Await("chat", "POST medical/prompts/validate", Ctx(b.action, b.prompt.len, 0, NoContent))
  ELSE IF b.action = "generate"
    THEN Await("chat", "POST medical/pwa/generate", Ctx(b.action, b.prompt.len, 0, NoContent))
  ELSE Return(Json(400, {}, {"error"}))

CamelLiteResume(st, c, o) ==
  IF o.t # "ok" THEN Throw(AxiosErrOf(o))
  ELSE IF c.action = "clarify"
    THEN Return(Json(200, {}, {"isValid", "sanitizedPrompt", "warnings"}))
  ELSE Return(WithResult(Json(200, {}, DOMAIN Bundle(o.content)), Bundle(o.content)))

\* details: err.stack || null, whatever NODE_ENV is
CamelLiteCatch(err, e) ==
  WithMsg(WithStack(Json(500, {}, {"error", "details"}), TRUE), err.msg)

----------------------------------------------------------------------------
(* part_000: the pipeline handler (clarify, generate, write, zip, deploy, ipfs) *)

\* writeFiles(prompt): the directory is removed and made again, then the five
\* files are written from the fields of the object
WriteFiles(p) ==
  IF p.t = "object"
    THEN WithFs(Return(Json(200, {}, {"status"})),
                <<"rmSync", "mkdirSync", "write index.html", "write app.js",
                  "write manifest.json", "write service-worker.js", "write style.css">>)
    ELSE WithFs(Throw(Err("TypeError", <<"Cannot", "read", "properties", "of", "undefined">>)),
                <<"rmSync", "mkdirSync">>)

\* the handler without its method check: every request is served as a POST
PipelineStartAnyMethod(event, e) ==
  LET b == event.body
      c == Ctx(b.action, b.prompt.len, 0, NoContent)
  IN
  IF b.kind # "object" THEN Throw(ParseErr(b, e))
  ELSE CASE b.action = "clarify" -> Await("chat", "POST mindsdb", c)
         [] b.action = "generate" -> Await("chat", "POST mindsdb", c)
         [] b.action = "write" -> WriteFiles(b.prompt)
         [] b.action = "zip" -> WithFs(Await("zip", "", c), <<"createWriteStream zip">>)
         [] b.action = "deploy" -> Await("deploy", "POST netlify deploys", c)
         [] b.action = "ipfs" -> Await("ipfs", "ipfs addAll", c)
         [] OTHER -> Return(Json(400, {}, {"error"}))

PipelineStart(event, e) ==
  LET b == event.body
      c == Ctx(b.action, b.prompt.len, 0, NoContent)
  IN
  IF event.method # "POST" THEN Return(Resp(405, {}, "text", {}, "absent"))
  ELSE IF b.kind # "object" THEN Throw(ParseErr(b, e))
  ELSE CASE b.action = "clarify" -> Await("chat", "POST mindsdb", c)
         [] b.action = "generate" -> Await("chat", "POST mindsdb", c)
         [] b.action = "write" -> WriteFiles(b.prompt)
         [] b.action = "zip" -> WithFs(Await("zip", "", c), <<"createWriteStream zip">>)
         [] b.action = "deploy" -> Await("deploy", "POST netlify deploys", c)
         [] b.action = "ipfs" -> Await("ipfs", "ipfs addAll", c)
         [] OTHER -> Return(Json(400, {}, {"error"}))

PipelineResume(st, c, o) ==
  CASE st = "chat" -> BareCompletion(c, o)
    [] st = "zip" ->
         IF o.t # "ok" THEN Throw(Err("Error", <<"archive", "error">>))
         ELSE Return(Json(200, {}, {"status"}))
    [] OTHER ->
         IF o.t # "ok" THEN Throw(AxiosErrOf(o)) ELSE Return(Json(200, {}, {"url"}))

PipelineCatch(err, e) == WithMsg(Json(500, {}, {"error"}), err.msg)

----------------------------------------------------------------------------
(* part_001:221-338: the Express server and its route POST /api/pwa-agent *)

Requests == 1..MaxRequests

\* the files writeFiles writes, in its order
FileNames ==
  <<"index.html", "app.js", "manifest.json", "service-worker.js", "style.css">>

\* the first n files, with the content generated for request `owner`
Files(owner, n) == [owner |-> owner, names |-> {FileNames[i] : i \in 1..n}]

NoFiles == Files(0, 0)

\* a request of the route: the await it is suspended at, what it has zipped,
\* handed to Netlify and handed to IPFS, and the status it answered with
Req(at, zipped, deployed, uploaded, status) ==
  [at |-> at, zipped |-> zipped, deployed |-> deployed, uploaded |-> uploaded,
   status |-> status]

NoReq == Req("idle", NoFiles, NoFiles, NoFiles, 0)

\* the catch of the route: res.status(500).json({ error: err.message })
RouteCatch(r) == [r EXCEPT !.at = "done", !.status = 500]

\* one call of generateResponse: the child, what `stdout` holds, the timer,
\* the signals sent, the promise, and the events its listeners have handled
NoLlama ==
  [child |-> "none", errored |-> FALSE, stdout |-> <<>>, chunks |-> 0, timer |-> "none",
   kills |-> 0, promise |-> "none", reason |-> "", log |-> <<>>]

\* what a 'data' event of stdout can carry: a whole JSON object, a part of
\* one, text that is no JSON, or the JSON literal null
StdoutChunks ==
  LET object == Text(Content("json", "bare", {}, "ok")) IN
  { object, SubSeq(object, 1, 3), SubSeq(object, 4, Len(object)),
    <<Tok("prose", "", <<>>)>>, <<Tok("null", "", <<>>)>> }

\* the page: promptInput.value, generateBtn.disabled, the intervals that run
\* (each with its `dots`, of which the text shows dots % 4), the variable
\* loadingInterval (0: undefined), the click handlers suspended at an await,
\* the prompts of the requests sent, and what log.textContent says
NoPage ==
  [value |-> "", disabled |-> FALSE, intervals |-> {}, loadingInterval |-> 0,
   handlers |-> <<>>, sent |-> <<>>, log |-> ""]

\* what the user can leave in the input, and String.prototype.trim on it
InputValues == {"", "  ", "a pwa", " a pwa "}
Trim(v) == CASE v = "  " -> "" [] v = " a pwa " -> "a pwa" [] OTHER -> v

----------------------------------------------------------------------------
(* The state machine *)

Start(r, event, e) ==
  CASE r = "agent" -> AgentStart(event, e)
    [] r = "medical" -> MedicalStart(event, e)
    [] r = "camel" -> CamelStart(event, e)
    [] r = "mindsdb" -> MindsdbStart(event, e)
    [] r = "diagnosis" -> DiagnosisStart(event, e)
    [] r = "proxy" -> ProxyStart(event, e)
    [] r = "camelLite" -> CamelLiteStart(event, e)
    [] OTHER -> PipelineStart(event, e)

Resume(r, event, st, c, o, e) ==
  CASE r \in MedicalRevisions -> MedicalResume(st, c, o, e)
    [] r = "camel" -> CamelResume(event, st, c, o)
    [] r = "mindsdb" -> MindsdbResume(st, c, o)
    [] r = "diagnosis" -> DiagnosisResume(event, st, c, o)
    [] r = "proxy" -> ProxyResume(st, c, o)
    [] r = "camelLite" -> CamelLiteResume(st, c, o)
    [] OTHER -> PipelineResume(st, c, o)

Catch(r, err, e) ==
  CASE r \in MedicalRevisions -> MedicalCatch(err, e)
    [] r = "camel" -> CamelCatch(err, e)
    [] r = "mindsdb" -> MindsdbCatch(err, e)
    [] r = "diagnosis" -> DiagnosisCatch(err, e)
    [] r = "proxy" -> ProxyCatch(err, e)
    [] r = "camelLite" -> CamelLiteCatch(err, e)
    [] OTHER -> PipelineCatch(err, e)

LlamaStages == {"llama"}
ChatStages == {"chat"}
ServiceStages ==
  {"dataSources", "iframe", "StartSession", "AddSymptom", "Analyze", "explain",
   "deploy", "ipfs"}
LocalStages == {"archive", "zip"}

\* the timeout the code puts on the call that revision r awaits at stage st,
\* 0 when it puts none: setTimeout around the child process, `timeout` in the
\* axios config of callMindsDBAPI and of createIframe, nothing elsewhere
TimeoutMs(r, st) ==
  CASE st = "llama" -> LlamaTimeoutMs
    [] st = "chat" /\ r = "mindsdb" -> MindsdbTimeoutMs
    [] st = "iframe" -> IframeTimeoutMs
    [] OTHER -> 0

\* the outcome is the firing of the call's timer
IsTimeout(o) == o.t = "timeout" \/ (o.t = "reject" /\ o.code = "timeout")

Init ==
  /\ env \in Envs
  /\ rev = "none"
  /\ ev = [method |-> "none", body |-> ObjBody("", NoPrompt)]
  /\ pc = "idle"
  /\ stage = ""
  /\ ctx = NoCtx
  /\ calls = <<>>
  /\ fsOps = <<>>
  /\ settled = <<>>
  /\ resp = NoResp
  /\ clock = 0
  /\ publicDir = NoFiles
  /\ outputZip = NoFiles
  /\ reqs = [id \in Requests |-> NoReq]
  /\ llama = NoLlama
  /\ page = NoPage

\* the handler ran to its next await or to its end
Apply(r, step) ==
  /\ pc' = IF step.t = "await" THEN "await" ELSE "done"
  /\ stage' = step.stage
  /\ ctx' = step.ctx
  /\ calls' = IF step.t = "await" /\ step.call # "" THEN Append(calls, step.call) ELSE calls
  /\ fsOps' = fsOps \o step.fs
  /\ resp' = CASE step.t = "return" -> step.resp
               [] step.t = "throw" -> Catch(r, step.err, env)
               [] OTHER -> NoResp
  /\ clock' = 0

\* the platform invokes revision r with an event
Invoke(r) ==
  /\ pc = "idle"
  /\ \E event \in Events :
       /\ rev' = r
       /\ ev' = event
       /\ Apply(r, Start(r, event, env))
  /\ UNCHANGED <<env, settled>>
  /\ UNCHANGED restVars

InvokeAgent == Invoke("agent")
InvokeMedical == Invoke("medical")
InvokeCamel == Invoke("camel")
InvokeMindsdb == Invoke("mindsdb")
InvokeDiagnosis == Invoke("diagnosis")
InvokeProxy == Invoke("proxy")
InvokeCamelLite == Invoke("camelLite")
InvokePipeline == Invoke("pipeline")

\* the pending call stays pending while the clock advances; a call with a
\* timeout is not pending any more once its timer has fired
Wait ==
  /\ pc = "await"
  /\ clock < MaxWaitTicks * TickMs
  /\ TimeoutMs(rev, stage) = 0 \/ clock < TimeoutMs(rev, stage)
  /\ clock' = clock + TickMs
  /\ UNCHANGED <<env, rev, ev, pc, stage, ctx, calls, fsOps, settled, resp>>
  /\ UNCHANGED restVars

\* the awaited call settles with outcome o and the handler goes on; the timer
\* fires when the configured time has passed and only then, and a call without
\* a timer has no timeout to settle with
Settle(o) ==
  /\ IF IsTimeout(o)
       THEN TimeoutMs(rev, stage) > 0 /\ clock >= TimeoutMs(rev, stage)
       ELSE TimeoutMs(rev, stage) = 0 \/ clock < TimeoutMs(rev, stage)
  /\ Apply(rev, Resume(rev, ev, stage, ctx, o, env))
  /\ settled' = Append(settled, [stage |-> stage, o |-> o])
  /\ UNCHANGED <<env, rev, ev>>
  /\ UNCHANGED restVars

\* the child process of ClinicalLlamaClient.generateResponse ends
LlamaSettles ==
  /\ pc = "await" /\ stage \in LlamaStages
  /\ \E o \in LlamaOutcomes : Settle(o)

\* the chat-completion request ends
ChatSettles ==
  /\ pc = "await" /\ stage \in ChatStages
  /\ \E o \in ChatOutcomes : Settle(o)

\* a request to another service (data chat, diagnosis engine, deploy, IPFS) ends
ServiceSettles ==
  /\ pc = "await" /\ stage \in ServiceStages
  /\ \E o \in PlainOutcomes \cup
              (IF stage \in {"StartSession", "Analyze"}
                 THEN {Outcome("ok", 200, "", NoContent)} ELSE {}) :
       Settle(o)

\* the local archive is written, or fails
LocalSettles ==
  /\ pc = "await" /\ stage \in LocalStages
  /\ \E o \in LocalOutcomes : Settle(o)

\* the invocation is over; the next one starts from nothing
NextRequest ==
  /\ pc = "done"
  /\ pc' = "idle"
  /\ rev' = "none"
  /\ ev' = [method |-> "none", body |-> ObjBody("", NoPrompt)]
  /\ stage' = ""
  /\ ctx' = NoCtx
  /\ calls' = <<>>
  /\ fsOps' = <<>>
  /\ settled' = <<>>
  /\ resp' = NoResp
  /\ clock' = 0
  /\ UNCHANGED env
  /\ UNCHANGED restVars

Next ==
  \/ InvokeAgent
  \/ InvokeMedical
  \/ InvokeCamel
  \/ InvokeMindsdb
  \/ InvokeDiagnosis
  \/ InvokeProxy
  \/ InvokeCamelLite
  \/ InvokePipeline
  \/ LlamaSettles
  \/ ChatSettles
  \/ ServiceSettles
  \/ LocalSettles
  \/ Wait
  \/ NextRequest

Spec == Init /\ [][Next]_vars

----------------------------------------------------------------------------
(* The Express server: its requests interleave at their awaits *)

\* a request arrives: the route reads req.body.prompt and awaits clarifyPrompt
PostPwaAgent(id) ==
  /\ reqs[id].at = "idle"
  /\ reqs' = [reqs EXCEPT ![id].at = "clarify"]
  /\ UNCHANGED <<publicDir, outputZip>>

\* clarifyPrompt settles; the route awaits generatePWA(clarified), or catches
ClarifySettles(id) ==
  /\ reqs[id].at = "clarify"
  /\ \E ok \in BOOLEAN :
       reqs' = [reqs EXCEPT ![id] = IF ok THEN [@ EXCEPT !.at = "generate"]
                                         ELSE RouteCatch(@)]
  /\ UNCHANGED <<publicDir, outputZip>>

\* generatePWA settles: the call or JSON.parse fails, or writeFiles(files)
\* runs, removing public/ and writing the files of this request until a field
\* is undefined (three files are written when it is `sw`), and zipFiles starts
GenerateSettles(id) ==
  /\ reqs[id].at = "generate"
  /\ \E written \in {0, 3, Len(FileNames)} :
       /\ publicDir' = IF written = 0 THEN publicDir ELSE Files(id, written)
       /\ reqs' = [reqs EXCEPT ![id] = IF written = Len(FileNames)
                                         THEN [@ EXCEPT !.at = "zip"]
                                         ELSE RouteCatch(@)]
  /\ UNCHANGED outputZip

\* the archiver walks public/ some time after archive.directory was called
ZipReads(id) ==
  /\ reqs[id].at = "zip"
  /\ reqs[id].zipped = NoFiles
  /\ reqs' = [reqs EXCEPT ![id].zipped = publicDir]
  /\ UNCHANGED <<publicDir, outputZip>>

\* output.zip closes and deployToNetlify lists public/ and appends its files
\* to the form it posts; or the archive emits 'error' and the promise rejects;
\* or the write stream of output.zip emits 'error', which has no listener:
\* the exception is uncaught and the process ends with every request it holds
ZipSettles(id) ==
  /\ reqs[id].at = "zip"
  /\ reqs[id].zipped # NoFiles
  /\ \E event \in {"output close", "archive error", "output error"} :
       /\ reqs' = CASE event = "output close" ->
                        [reqs EXCEPT ![id] = [@ EXCEPT !.at = "deploy",
                                                       !.deployed = publicDir]]
                   [] event = "archive error" ->
                        [reqs EXCEPT ![id] = RouteCatch(@)]
                   [] OTHER ->
                        [j \in Requests |->
                           IF reqs[j].at \in {"idle", "done"}
                             THEN reqs[j] ELSE [reqs[j] EXCEPT !.at = "crashed"]]
       /\ outputZip' = IF event = "output close" THEN reqs[id].zipped ELSE outputZip
  /\ UNCHANGED publicDir

\* the deploy request settles; uploadToIPFS then reads the files of public/
DeploySettles(id) ==
  /\ reqs[id].at = "deploy"
  /\ \E ok \in BOOLEAN :
       reqs' = [reqs EXCEPT ![id] = IF ok THEN [@ EXCEPT !.at = "ipfs",
                                                         !.uploaded = publicDir]
                                         ELSE RouteCatch(@)]
  /\ UNCHANGED <<publicDir, outputZip>>

\* ipfs.addAll settles; res.json({ netlifyUrl, ipfsUrl }), or the catch
IpfsSettles(id) ==
  /\ reqs[id].at = "ipfs"
  /\ \E ok \in BOOLEAN :
       reqs' = [reqs EXCEPT ![id] = IF ok THEN [@ EXCEPT !.at = "done", !.status = 200]
                                         ELSE RouteCatch(@)]
  /\ UNCHANGED <<publicDir, outputZip>>

\* the response is sent, or the connection went down with the process, and
\* the request is over
RequestEnds(id) ==
  /\ reqs[id].at \in {"done", "crashed"}
  /\ reqs' = [reqs EXCEPT ![id] = NoReq]
  /\ UNCHANGED <<publicDir, outputZip>>

InitServer ==
  /\ Init
  /\ env = [nodeEnv |-> "unset", mindsdbKeyLen |-> 0, camelAiKey |-> FALSE,
            quoteInput |-> FALSE]

NextServer ==
  \/ \E id \in Requests : PostPwaAgent(id) /\ UNCHANGED sideVars
  \/ \E id \in Requests : ClarifySettles(id) /\ UNCHANGED sideVars
  \/ \E id \in Requests : GenerateSettles(id) /\ UNCHANGED sideVars
  \/ \E id \in Requests : ZipReads(id) /\ UNCHANGED sideVars
  \/ \E id \in Requests : ZipSettles(id) /\ UNCHANGED sideVars
  \/ \E id \in Requests : DeploySettles(id) /\ UNCHANGED sideVars
  \/ \E id \in Requests : IpfsSettles(id) /\ UNCHANGED sideVars
  \/ \E id \in Requests : RequestEnds(id) /\ UNCHANGED sideVars

SpecServer == InitServer /\ [][NextServer]_vars

----------------------------------------------------------------------------
(* The page script, Public/App.js:23-74 *)

\* setInterval returns an id no other timer has; one is set per request
StartLoadingAnimation(p) ==
  LET id == Len(p.sent) + 1 IN
  [p EXCEPT !.intervals = @ \cup {[id |-> id, dots |-> 0]}, !.loadingInterval = id]

\* clearInterval(loadingInterval): nothing when that interval is gone
StopLoadingAnimation(p) ==
  [p EXCEPT !.intervals = {iv \in @ : iv.id # p.loadingInterval}]

\* the handler with number i ends: `finally` enables the button
Finally(p, i, text) ==
  [p EXCEPT !.disabled = FALSE, !.log = text,
            !.handlers = SubSeq(@, 1, i - 1) \o SubSeq(@, i + 1, Len(@))]

\* the user edits the prompt
TypePrompt ==
  /\ \E v \in InputValues \ {page.value} : page' = [page EXCEPT !.value = v]
  /\ UNCHANGED <<handlerVars, serverVars, llama>>

\* the click handler that leaves the button enabled
ClickNotDisabling ==
  /\ ~page.disabled
  /\ LET prompt == Trim(page.value) IN
     IF prompt = ""
       THEN page' = [page EXCEPT !.log = "enter a prompt"]
       ELSE /\ Len(page.sent) < MaxClicks
            /\ page' = [StartLoadingAnimation(page)
                          EXCEPT !.handlers = Append(@, "fetch"),
                                 !.sent = Append(@, prompt)]
  /\ UNCHANGED <<handlerVars, serverVars, llama>>

\* a click, which the browser delivers to a button only while it is enabled:
\* the handler runs to its return or to `await fetch`
Click ==
  /\ ~page.disabled
  /\ LET prompt == Trim(page.value) IN
     IF prompt = ""
       THEN page' = [page EXCEPT !.log = "enter a prompt"]
       ELSE /\ Len(page.sent) < MaxClicks
            /\ page' = [StartLoadingAnimation([page EXCEPT !.disabled = TRUE])
                          EXCEPT !.handlers = Append(@, "fetch"),
                                 !.sent = Append(@, prompt)]
  /\ UNCHANGED <<handlerVars, serverVars, llama>>

\* the callback of an interval that runs
IntervalTicks ==
  /\ \E iv \in page.intervals :
       page' = [page EXCEPT !.log = "generating",
                            !.intervals = (@ \ {iv}) \cup {[iv EXCEPT !.dots = (@ + 1) % 4]}]
  /\ UNCHANGED <<handlerVars, serverVars, llama>>

\* fetch settles: a response that is ok (the handler awaits response.json()),
\* a response that is not (throw), or a network failure (fetch rejects)
FetchSettles ==
  /\ \E i \in DOMAIN page.handlers, outcome \in {"ok", "http error", "network failure"} :
       /\ page.handlers[i] = "fetch"
       /\ page' = IF outcome = "ok"
                    THEN [page EXCEPT !.handlers[i] = "json"]
                    ELSE Finally(StopLoadingAnimation(page), i, "error")
  /\ UNCHANGED <<handlerVars, serverVars, llama>>

\* response.json() settles: an object of strings; a result whose values
\* have no slice, or null (a TypeError after stopLoadingAnimation, and the
\* catch stops the animation again); or a body that is no JSON (a rejection)
JsonSettles ==
  /\ \E i \in DOMAIN page.handlers, outcome \in {"strings", "no strings", "malformed"} :
       /\ page.handlers[i] = "json"
       /\ page' = CASE outcome = "strings" ->
                         Finally(StopLoadingAnimation(page), i, "files")
                    [] outcome = "no strings" ->
                         Finally(StopLoadingAnimation(StopLoadingAnimation(page)), i, "error")
                    [] OTHER ->
                         Finally(StopLoadingAnimation(page), i, "error")
  /\ UNCHANGED <<handlerVars, serverVars, llama>>

NextPage ==
  \/ TypePrompt
  \/ Click
  \/ IntervalTicks
  \/ FetchSettles
  \/ JsonSettles

SpecPage == InitServer /\ [][NextPage]_vars

----------------------------------------------------------------------------
(* ClinicalLlamaClient.generateResponse, agent.js:21-71, event by event *)

\* the promise settles once: reject and resolve do nothing afterwards
Reject(l, reason) ==
  IF l.promise = "pending" THEN [l EXCEPT !.promise = "rejected", !.reason = reason] ELSE l

Resolve(l) ==
  IF l.promise = "pending" THEN [l EXCEPT !.promise = "resolved"] ELSE l

\* clearTimeout(timeoutHandle): a timer that has fired stays fired
ClearTimeout(l) == IF l.timer = "armed" THEN [l EXCEPT !.timer = "cleared"] ELSE l

Handled(l, e, code) == [l EXCEPT !.log = Append(@, [e |-> e, code |-> code])]

\* spawn, the listeners, setTimeout: the promise is pending
GenerateResponse ==
  /\ llama.child = "none"
  /\ llama' = [llama EXCEPT !.child = "running", !.timer = "armed", !.promise = "pending"]
  /\ UNCHANGED <<handlerVars, serverVars, page>>

\* stdout 'data': stdout += data.toString()
StdoutData ==
  /\ llama.child = "running"
  /\ llama.chunks < MaxChunks
  /\ \E chunk \in StdoutChunks :
       llama' = [llama EXCEPT !.stdout = @ \o chunk, !.chunks = @ + 1]
  /\ UNCHANGED <<handlerVars, serverVars, page>>

\* the timer callback without its reject: the child is only killed
TimeoutExpiresKillOnly ==
  /\ llama.timer = "armed"
  /\ llama' = Handled([llama EXCEPT !.timer = "fired", !.kills = @ + 1], "timeout", 0)
  /\ UNCHANGED <<handlerVars, serverVars, page>>

\* the timer callback: pythonProcess.kill('SIGTERM'), reject(inference timeout)
TimeoutExpires ==
  /\ llama.timer = "armed"
  /\ llama' = Handled(Reject([llama EXCEPT !.timer = "fired", !.kills = @ + 1], "timeout"),
                      "timeout", 0)
  /\ UNCHANGED <<handlerVars, serverVars, page>>

\* the 'close' listener without its test of the exit code
ChildCloseAnyCode ==
  /\ llama.child = "running"
  /\ \E code \in {0, 1, -1} :
       /\ llama' =
            LET l == Handled(ClearTimeout([llama EXCEPT !.child = "closed"]), "close", code)
            IN  IF JsonParse(llama.stdout).ok THEN Resolve(l) ELSE Reject(l, "parse")
  /\ UNCHANGED <<handlerVars, serverVars, page>>

\* the 'close' listener: the streams of the child are closed, so no data
\* follows; the code is 0, positive, or none (-1) when a signal ended the
\* child or it never started. JSON.parse(stdout) and the read of .content
\* are in one try: stdout `null` parses and the read throws, a reject as well
ChildClose ==
  /\ llama.child = "running"
  /\ \E code \in {0, 1, -1} :
       /\ llama' =
            LET l == Handled(ClearTimeout([llama EXCEPT !.child = "closed"]), "close", code)
            IN  IF code # 0 THEN Reject(l, "exit")
                ELSE IF JsonParse(llama.stdout).ok THEN Resolve(l)
                ELSE Reject(l, "parse")
  /\ UNCHANGED <<handlerVars, serverVars, page>>

\* the 'error' listener without its clearTimeout
ChildErrorKeepingTimer ==
  /\ llama.child = "running"
  /\ ~llama.errored
  /\ llama' = Reject(Handled([llama EXCEPT !.errored = TRUE], "error", 0), "spawn")
  /\ UNCHANGED <<handlerVars, serverVars, page>>

\* the 'error' listener: the child could not be spawned or could not be killed
ChildError ==
  /\ llama.child = "running"
  /\ ~llama.errored
  /\ llama' = Reject(Handled(ClearTimeout([llama EXCEPT !.errored = TRUE]), "error", 0),
                     "spawn")
  /\ UNCHANGED <<handlerVars, serverVars, page>>

\* the caller has its answer and the child is gone; the next call starts anew
ResponseDelivered ==
  /\ llama.promise \in {"resolved", "rejected"}
  /\ llama.child = "closed" \/ llama.errored
  /\ llama' = NoLlama
  /\ UNCHANGED <<handlerVars, serverVars, page>>

NextLlama ==
  \/ GenerateResponse
  \/ StdoutData
  \/ TimeoutExpires
  \/ ChildClose
  \/ ChildError
  \/ ResponseDelivered

SpecLlama == InitServer /\ [][NextLlama]_vars

TypeOK ==
  /\ env \in Envs
  /\ rev \in Revisions \cup {"none"}
  /\ pc \in {"idle", "await", "done"}
  /\ resp.t \in {"none", "response", "rejected"}
  /\ (pc = "done") = (resp.t # "none")

----------------------------------------------------------------------------
(* Properties *)

Post == pc # "idle" /\ ev.method = "POST"
Done == pc = "done"
Responded == resp.t = "response"

\* the revisions whose body carries `action` and `prompt`
ActionRevisions == Revisions \ {"diagnosis"}

\* the actions each revision's dispatch names
RecognizedActions(r) ==
  CASE r = "agent" -> AgentActions
    [] r = "medical" -> MedicalActions
    [] r = "pipeline" -> {"clarify", "generate", "write", "zip", "deploy", "ipfs"}
    [] OTHER -> {"clarify", "generate"}

\* an awaited call failed: no 2xx answer, no answer, a timeout, a child that
\* failed, or a completion without content
FailedCall(s) ==
  \/ s.o.t \in {"http", "network", "timeout", "reject"}
  \/ s.stage \in {"chat", "llama"} /\ s.o.t = "ok" /\ s.o.content.kind \in {"none", "empty"}

\* C1: a POST whose JSON body lacks `action` or `prompt` is answered 400 with
\* success:false, and no upstream call is made for it.
C1_MissingFieldIs400 ==
  (Post /\ rev \in ActionRevisions /\ ev.body.kind = "object"
        /\ (ev.body.action = "" \/ ev.body.prompt.t = "missing"))
    => /\ Done /\ Responded
       /\ resp.status = 400
       /\ resp.success = "false"
       /\ calls = <<>>

\* C2: in the medical handlers every POST ends with a returned response, with
\* an `error` field when the status is an error status; the handler's promise
\* never rejects.
C2_MedicalHandlerNeverRejects ==
  (Done /\ Post /\ rev \in MedicalRevisions)
    => /\ Responded
       /\ (resp.status >= 400 => "error" \in resp.fields)

\* C3: a request whose method is neither POST nor OPTIONS is answered 405 by
\* every handler revision, with no upstream call and no file-system write.
C3_OtherMethodsAre405 ==
  (pc # "idle" /\ ev.method \notin {"POST", "OPTIONS"})
    => /\ Done /\ Responded
       /\ resp.status = 405
       /\ calls = <<>>
       /\ fsOps = <<>>

C3_Witness ==
  /\ Done /\ rev = "pipeline" /\ ev.method = "DELETE"
  /\ ev.body.action = "write" /\ ev.body.prompt.t = "object"
  /\ resp.status = 405 /\ fsOps = <<>>

\* C4: a POST whose action is present but not recognized is answered 400 and
\* the upstream is never called for it.
C4_UnknownActionIs400 ==
  (Post /\ rev \in ActionRevisions /\ ev.body.kind = "object"
        /\ ev.body.action # "" /\ ev.body.action \notin RecognizedActions(rev))
    => /\ calls = <<>>
       /\ Done /\ Responded
       /\ resp.status = 400

\* C5: a POST whose body is not parsable as JSON is answered 400 in every
\* handler revision.
C5_UnparsableBodyIs400 ==
  (Done /\ Post /\ ev.body.kind = "badjson")
    => Responded /\ resp.status = 400

\* C6: in the medical revisions a POST whose prompt is shorter than 20 or
\* longer than 3000 characters is answered 400 and no inference process starts.
C6_PromptLengthIs400 ==
  (Post /\ rev \in MedicalRevisions /\ ev.body.kind = "object"
        /\ ev.body.action \in PromptActions
        /\ ev.body.prompt.t = "string"
        /\ (ev.body.prompt.len < MinPromptLen \/ ev.body.prompt.len > MaxPromptLen))
    => /\ calls = <<>>
       /\ Done /\ Responded
       /\ resp.status = 400

\* C7: whenever an upstream call failed, the response status is 500, whatever
\* the upstream's message and status were.
C7_UpstreamFailureIs500 ==
  (Done /\ \E i \in 1..Len(settled) : FailedCall(settled[i]))
    => Responded /\ resp.status = 500

\* C8: an OPTIONS request returns without any upstream call (no HTTP request,
\* no child process), in every handler revision.
C8_OptionsCallsNothing ==
  (pc # "idle" /\ ev.method = "OPTIONS")
    => /\ Done /\ Responded
       /\ calls = <<>>

C8_Witness ==
  /\ Done /\ rev = "agent" /\ ev.method = "OPTIONS"
  /\ ev.body.action = "clarify" /\ ValidateMedicalPrompt(ev.body.prompt).ok
  /\ Responded /\ calls = <<>>

\* C9: in every handler revision an OPTIONS request is answered 200 or 204
\* with the three CORS headers.
C9_PreflightIs2xxWithCors ==
  (Done /\ ev.method = "OPTIONS")
    => /\ Responded
       /\ resp.status \in {200, 204}
       /\ CorsTriple \subseteq resp.headers

\* C10: every response a handler returns carries Access-Control-Allow-Origin,
\* Access-Control-Allow-Methods and Access-Control-Allow-Headers.
C10_CorsOnEveryResponse ==
  (Done /\ Responded) => CorsTriple \subseteq resp.headers

\* C11: an upstream call that never resolves cannot hang the function: every
\* pending upstream call has a configured timeout and has not been waited for
\* longer than it, so the request ends with a timeout error by then.
C11_PendingCallTimesOut ==
  (pc = "await" /\ stage \notin LocalStages)
    => /\ TimeoutMs(rev, stage) > 0
       /\ clock <= TimeoutMs(rev, stage)

GenerateOutput ==
  IF settled # <<>> /\ settled[1].stage \in {"chat", "llama"} /\ settled[1].o.t = "ok"
    THEN settled[1].o.content
    ELSE NoContent

\* a generate request has ended whose upstream text held a JSON object
GenerateDone ==
  /\ Done /\ Post /\ rev \in ActionRevisions /\ ev.body.action = "generate"
  /\ GenerateOutput.kind = "json"

\* the revisions that take the object out of the text around it
ExtractingRevisions == MedicalRevisions \cup {"mindsdb"}

\* C13: no partial success: a 200 response to a generate request carries a
\* bundle in which all five fields are present.
C13_NoPartialSuccess ==
  (Done /\ Post /\ rev \in ActionRevisions /\ ev.body.action = "generate"
        /\ Responded /\ resp.status = 200)
    => MissingFields(resp.result) = {}

\* C14: when the upstream's generate output lacks `sw`, the request fails with
\* an error response whose message names sw.
C14_MissingSwIsNamed ==
  (GenerateDone /\ "sw" \in GenerateOutput.missing)
    => /\ Responded
       /\ resp.status >= 400
       /\ Includes(resp.msg, <<"sw">>)

\* C15: when several of the five fields are missing, the error message lists
\* every one of them.
C15_EveryMissingFieldIsListed ==
  (GenerateDone /\ Cardinality(GenerateOutput.missing) >= 2)
    => /\ Responded
       /\ resp.status >= 400
       /\ \A f \in GenerateOutput.missing : Includes(resp.msg, <<f>>)

\* C16: for upstream text that is the five-field JSON object in a ```json
\* fence, the generate path returns an object whose five values are exactly
\* those of the fenced JSON, whatever the values hold.
C16_FencedJsonRoundTrips ==
  (GenerateDone /\ rev \in ExtractingRevisions
        /\ GenerateOutput.wrap = "fenced" /\ GenerateOutput.missing = {})
    => /\ Responded
       /\ resp.status = 200
       /\ resp.result = Bundle(GenerateOutput)

\* C17: for upstream text that holds one JSON object between prose, the
\* generate path recovers the object and parses it; it fails to parse only
\* when the text has no {...} span.
C17_ProseAroundJsonIsDropped ==
  (GenerateDone /\ rev \in ExtractingRevisions
        /\ GenerateOutput.wrap = "prose" /\ GenerateOutput.missing = {}
        /\ GenerateOutput.manifest = "ok")
    => /\ Responded
       /\ resp.status = 200
       /\ resp.result = Bundle(GenerateOutput)

\* C18: a response body holds a stack trace only when NODE_ENV is
\* 'development', in every handler revision.
C18_StackOnlyInDevelopment ==
  (Done /\ Responded /\ resp.stack) => env.nodeEnv = "development"

\* C19: every 200 response to a clarify or generate request has a JSON body
\* with success true, a content field and a timestamp field.
C19_SuccessEnvelope ==
  (Done /\ Post /\ rev \in ActionRevisions /\ ev.body.action \in {"clarify", "generate"}
        /\ Responded /\ resp.status = 200)
    => /\ resp.body = "json"
       /\ resp.success = "true"
       /\ {"content", "timestamp"} \subseteq resp.fields

\* C20: invocations share no mutable state: when requests to the
\* write/zip/deploy/upload route overlap, each one zips, deploys and uploads
\* exactly the files generated for its own prompt, under every interleaving.
C20_OwnFilesOnly ==
  \A id \in Requests :
    \A files \in {reqs[id].zipped, reqs[id].deployed, reqs[id].uploaded} :
      files # NoFiles => files = Files(id, Len(FileNames))

\* C22: in the medical revisions the prompt that validateMedicalPrompt returns
\* and the handler forwards has between 20 and 3000 characters.
C22_ForwardedPromptLength ==
  (pc = "await" /\ rev \in MedicalRevisions /\ stage = "llama")
    => /\ ctx.promptLen >= MinPromptLen
       /\ ctx.promptLen <= MaxPromptLen

\* C25: in the medical handler a process is spawned or the data-chat API is
\* called only after validateMedicalAction accepted the action and, for the
\* four prompt actions, validateMedicalPrompt accepted the prompt; a request
\* that validation rejects causes no upstream activity.
C25_ValidationBeforeUpstream ==
  (rev \in MedicalRevisions /\ calls # <<>>)
    => /\ ev.method = "POST"
       /\ ValidateMedicalAction(RecognizedActions(rev), ev.body.action).ok
       /\ ev.body.action \in PromptActions => ValidateMedicalPrompt(ev.body.prompt).ok

C25_Witness ==
  /\ rev = "agent" /\ pc = "await" /\ stage = "llama"
  /\ calls = <<"spawn clinical-llama">>
  /\ ev.body.action = "diagnose" /\ ev.body.prompt.len = MaxPromptLen

\* C26: createMedicalChatSession sends no request to the data-chat API when
\* CAMEL_AI_API_KEY is unset, whatever userId and dataSources are.
C26_NoKeyNoDataChatCall ==
  (rev = "agent" /\ ~env.camelAiKey)
    => \A i \in 1..Len(calls) : calls[i] \notin {"GET data-sources", "POST iframe/create"}

\* C29: with MINDSDB_API_KEY missing or shorter than 30 characters
\* callMindsDBAPI issues no HTTP request; the request fails with 'Server
\* configuration error' and the handler answers 500 without naming the variable.
C29_BadKeyCallsNothing ==
  (rev = "mindsdb" /\ env.mindsdbKeyLen < MinKeyLen)
    => /\ calls = <<>>
       /\ (Post /\ ev.body.kind = "object" /\ ev.body.action # "" /\ ~Falsy(ev.body.prompt))
            => /\ Done /\ Responded
               /\ resp.status = 500
               /\ resp.msg = <<"Server", "configuration", "error">>
               /\ ~Includes(resp.msg, <<"MINDSDB_API_KEY">>)

C29_Witness ==
  /\ Done /\ rev = "mindsdb" /\ env.mindsdbKeyLen = MinKeyLen - 1
  /\ ev.method = "POST" /\ ev.body.action = "generate" /\ ~Falsy(ev.body.prompt)
  /\ resp.status = 500 /\ calls = <<>>

\* C27: runDiagnosis issues StartSession once and first, then AddSymptom once
\* per symptom in input order with the session id StartSession returned, each
\* awaited before the next, then Analyze once with the same id; when a step
\* fails no later step is issued and the handler answers 500.
C27_DiagnosisProtocol ==
  rev = "diagnosis" =>
    LET n == ev.body.symptoms.n
        protocol == <<"POST StartSession">> \o [i \in 1..n |-> "POST AddSymptom"]
                      \o <<"POST Analyze">>
        m == IF Len(calls) < n + 2 THEN Len(calls) ELSE n + 2
    IN
    /\ \A i \in 1..m : calls[i] = protocol[i]
    /\ \A i \in (n + 3)..Len(calls) : calls[i] \notin {"POST StartSession", "POST AddSymptom", "POST Analyze"}
    /\ \A i \in 2..m : Len(settled) >= i - 1 /\ settled[i - 1].o.t = "ok"
    /\ (pc = "await" /\ stage = "AddSymptom") => ctx.i = Len(calls) - 1
    /\ (pc = "await" /\ stage \in {"AddSymptom", "Analyze"})
         => ctx.content = settled[1].o.content
    /\ \A j \in 1..Len(settled) :
         (j <= n + 2 /\ settled[j].o.t # "ok")
           => Done /\ Len(calls) = j /\ Responded /\ resp.status = 500

C27_Witness ==
  /\ rev = "diagnosis" /\ Done /\ resp.status = 200
  /\ ev.body.symptoms.n = MaxSymptoms
  /\ Len(calls) >= MaxSymptoms + 2
  /\ settled[1].o.content # NoContent

\* C28: the /api/pwa-agent route runs clarify, generate, write files, zip,
\* deploy and IPFS upload strictly in that order; a failure in any step
\* prevents every later step and yields a 500 response; the response with
\* netlifyUrl and ipfsUrl is sent only when all six steps succeeded.
C28_OrderedPipeline ==
  \A id \in Requests :
    LET r == reqs[id] IN
    /\ r.at \notin {"idle", "clarify", "generate", "zip", "deploy", "ipfs"}
         => r.status \in {200, 500}
    /\ r.at \in {"idle", "clarify", "generate", "zip", "deploy", "ipfs"} => r.status = 0
    /\ r.at \in {"idle", "clarify", "generate"} => r.zipped = NoFiles
    /\ r.at \in {"idle", "clarify", "generate", "zip"} => r.deployed = NoFiles
    /\ r.at \in {"idle", "clarify", "generate", "zip", "deploy"} => r.uploaded = NoFiles
    /\ r.at \in {"deploy", "ipfs"} => r.zipped # NoFiles
    /\ r.at = "ipfs" => r.deployed # NoFiles
    /\ r.uploaded # NoFiles => r.deployed # NoFiles
    /\ r.deployed # NoFiles => r.zipped # NoFiles
    /\ r.status = 200
         => r.zipped # NoFiles /\ r.deployed # NoFiles /\ r.uploaded # NoFiles

\* the events that can end a call of generateResponse, as its listeners
\* handled them, and whether a text is JSON
Terminal == {i \in 1..Len(llama.log) : llama.log[i].e \in {"close", "error", "timeout"}}
ParsesAsJson(text) == JsonParse(text).ok \/ text = <<Tok("null", "", <<>>)>>

\* C21: when the child has neither closed nor errored at the moment the timeout
\* expires, it is sent the termination signal and the call fails with the
\* inference-timeout error; a close event after the expiry changes nothing.
C21_TimeoutKillsAndRejects ==
  (\E i \in Terminal :
      /\ llama.log[i].e = "timeout"
      /\ \A j \in 1..(i - 1) : llama.log[j].e \notin {"close", "error"})
    => /\ llama.kills >= 1
       /\ llama.promise = "rejected"
       /\ llama.reason = "timeout"

C21_Witness ==
  /\ Len(llama.log) = 2
  /\ llama.log[1].e = "timeout"
  /\ llama.log[2] = [e |-> "close", code |-> 0]
  /\ JsonParse(llama.stdout).ok
  /\ llama.reason = "timeout"

\* C23: under every interleaving of stdout data, close, error and the timeout,
\* generateResponse resolves only when the child closed with exit code 0
\* before the timeout and the concatenated stdout chunks parse as JSON; in
\* every other terminating case it rejects; the first of those events fixes
\* the outcome.
C23_OutcomeFixedByFirstEvent ==
  LET first == llama.log[1] IN
  /\ (llama.promise \in {"none", "pending"}) = (Terminal = {})
  /\ llama.promise = "resolved"
       => /\ first = [e |-> "close", code |-> 0]
          /\ ParsesAsJson(llama.stdout)
  /\ (Terminal # {} /\ ~(first = [e |-> "close", code |-> 0] /\ ParsesAsJson(llama.stdout)))
       => llama.promise = "rejected"
  /\ llama.promise = "rejected"
       => llama.reason = CASE first.e = "timeout" -> "timeout"
                           [] first.e = "error" -> "spawn"
                           [] first.code # 0 -> "exit"
                           [] OTHER -> "parse"

C23_Witness ==
  /\ llama.promise = "resolved"
  /\ llama.chunks = 2
  /\ llama.log = <<[e |-> "close", code |-> 0]>>

\* C24: the termination signal is sent at most once per call, and never after
\* a close or error event was handled: both cancel the timer.
C24_KillOnceBeforeCloseOrError ==
  /\ llama.kills <= 1
  /\ llama.kills = Cardinality({i \in Terminal : llama.log[i].e = "timeout"})
  /\ \A i \in Terminal :
       llama.log[i].e = "timeout"
         => \A j \in 1..(i - 1) : llama.log[j].e \notin {"close", "error"}
  /\ (llama.child = "closed" \/ llama.errored) => llama.timer \in {"cleared", "fired"}

C24_Witness ==
  /\ llama.errored /\ llama.child = "closed"
  /\ llama.timer = "cleared" /\ llama.kills = 0
  /\ Len(llama.log) = 2

\* C30: in the page script, after any sequence of clicks and request outcomes
\* (success, HTTP error, network failure, malformed result) the generate
\* button is disabled exactly while a request is in flight, at most one
\* loading interval runs at any time, after completion the button is enabled
\* and no interval runs; a click with an empty prompt issues no request.
C30_ButtonAndInterval ==
  /\ page.disabled = (page.handlers # <<>>)
  /\ Cardinality(page.intervals) <= 1
  /\ page.handlers = <<>> => ~page.disabled /\ page.intervals = {}
  /\ \A i \in DOMAIN page.sent : page.sent[i] # ""

C30_Witness ==
  /\ Len(page.sent) = 2
  /\ page.handlers = <<>>
  /\ page.log = "error"
  /\ page.value = "  "
  /\ ~page.disabled /\ page.intervals = {}

====
